---- MODULE Spec2Model ----
(***************************************************************************)
(* One invocation of TaskclusterGraphJob.work (src/jobs/taskcluster_graph  *)
(* .js): push-log lookup, template fetch with retries, template rendering  *)
(* with the error-template fallback, and the createTask loop.              *)
(*                                                                         *)
(* Text values are sequences of pieces, so that concatenation is \o and a  *)
(* formatted value differs from its parts.  An optional field is a         *)
(* sequence of length at most one: None when absent, Some(x) when set.     *)
(***************************************************************************)
EXTENDS Integers, Sequences, FiniteSets, TLC

VARIABLES pc, level, scopes, attempts, httpLog, graphText, renderedTemplate,
          renderError, usedFallback, groupId, idx, nextSlug, inflight,
          calls, created, jobError, registry, projectDoc, errorDoc,
          rejections, message, tryFlag, comment

vars == <<pc, level, scopes, attempts, httpLog, graphText, renderedTemplate,
          renderError, usedFallback, groupId, idx, nextSlug, inflight,
          calls, created, jobError, registry, projectDoc, errorDoc,
          rejections, message, tryFlag, comment>>

\* ---------------------------------------------------------------- bounds
MaxTasks == 2
MaxErrorTasks == 2
MaxAttempts == 5
MaxMessageLen == 6

\* ------------------------------------------------------------- constants
GRAPH_RETIRES_three == 2 + 1
GRAPH_RETIRES_one == 2 - 1

GRAPH_RETIRES == 2

None == <<>>
Some(x) == <<x>>

Levels == {1, 3}
LevelText == [l \in Levels |-> IF l = 1 THEN "1" ELSE "3"]

ScopeA == <<"scope:a">>
ScopeB == <<"scope:b">>
Users == {"alice"}
GraphUrl == <<"https://hg.mozilla.org/try/raw-file/rev/.taskcluster.yml">>

\* ------------------------------------------------------------ exceptions
NoError == [name |-> "", message |-> <<>>]
YamlError == [name |-> "YAMLException", message |-> <<"bad indentation of a mapping entry">>]
NullDocError == [name |-> "TypeError", message |-> <<"Cannot read property 'version' of undefined">>]
UnrecognizedVersion == [name |-> "Error", message |-> <<"Unrecognized .taskcluster.yml version">>]
NoTasksError == [name |-> "TypeError", message |-> <<"Cannot read property 'tasks' of undefined">>]
NotIterableError == [name |-> "TypeError", message |-> <<"undefined is not iterable">>]
BareEntryError == [name |-> "TypeError", message |-> <<"Cannot set property 'schedulerId' of undefined">>]
NoFirstTaskError == [name |-> "TypeError", message |-> <<"Cannot read property 'task' of undefined">>]
NoPayloadError == [name |-> "TypeError", message |-> <<"Cannot read property 'payload' of undefined">>]
NoEnvError == [name |-> "TypeError", message |-> <<"Cannot read property 'env' of undefined">>]
NetworkError == [name |-> "Error", message |-> <<"connect ECONNREFUSED">>]
StatusError == [name |-> "Error", message |-> <<"Internal Server Error">>]
CreateTaskError == [name |-> "Error", message |-> <<"createTask rejected">>]
PushlogError == [name |-> "Error", message |-> <<"pushlog lookup failed">>]

toString_messageOnly(e) == e.message

\* Error.prototype.toString: the name, ": ", then the message.
toString(e) == <<e.name, ": ">> \o e.message

Ok(v) == [ok |-> TRUE, val |-> v, err |-> NoError]
Throw(e) == [ok |-> FALSE, val |-> <<>>, err |-> e]

\* ------------------------------------------------------- template values
\* A task definition as read from a rendered template.
TaskDef(sc, declared, pl) ==
  [scopes |-> sc,
   taskGroupId |-> IF declared THEN Some(<<"template-group">>) ELSE None,
   schedulerId |-> IF declared THEN Some(<<"template-scheduler">>) ELSE None,
   payload |-> pl]

EmptyEnv == [ERROR_MSG |-> None, HEAD_REV |-> None]
Payloads ==
  {None,
   Some([env |-> None]),
   Some([env |-> Some([ERROR_MSG |-> None, HEAD_REV |-> Some(<<"abcdef">>)])]),
   Some([env |-> Some([ERROR_MSG |-> Some(<<"template-error-msg">>),
                       HEAD_REV |-> Some(<<"abcdef">>)])])}

\* An entry of a tasks list: a {task: <definition>} wrapper or a bare definition.
\* A project task declares nothing, or scopes with a repeat and its own ids.
ProjectEntries ==
  {[wrapped |-> w,
    def |-> TaskDef(IF d THEN Some(<<ScopeA, ScopeB, ScopeA>>) ELSE None, d,
                    Some([env |-> None]))] :
     w \in BOOLEAN, d \in BOOLEAN}
ErrorFirstEntries ==
  {[wrapped |-> TRUE, def |-> TaskDef(None, FALSE, pl)] : pl \in Payloads}
    \cup {[wrapped |-> FALSE, def |-> TaskDef(None, FALSE, Some([env |-> None]))]}
ErrorRestEntries ==
  {[wrapped |-> w, def |-> TaskDef(Some(<<ScopeB>>), TRUE,
                                  Some([env |-> Some([ERROR_MSG |-> None,
                                                      HEAD_REV |-> Some(<<"abcdef">>)])]))] :
     w \in BOOLEAN}

SeqUpTo(S, n) == UNION {[1..k -> S] : k \in 0..n}

\* What instantiate(template, variables) can give: a failure of the parse that
\* follows the substitution, an empty document, a document without a tasks
\* list, or a document with a tasks list.
Doc(kind, tasks) == [kind |-> kind, tasks |-> tasks]
BrokenDocs == {Doc("throw", <<>>), Doc("null", <<>>), Doc("notasks", <<>>)}
ProjectDocs == BrokenDocs \cup {Doc("tasks", t) : t \in SeqUpTo(ProjectEntries, MaxTasks)}
ErrorDocs ==
  BrokenDocs \cup {Doc("tasks", <<>>)}
    \cup {Doc("tasks", <<f>> \o r) :
            f \in ErrorFirstEntries, r \in SeqUpTo(ErrorRestEntries, MaxErrorTasks - 1)}

\* The fetched text, by what yaml.safeLoad makes of it, the version the parsed
\* document carries, and whether the text contains 'version: 0'.
Number(n) == [type |-> "number", val |-> n]
Undefined == [type |-> "undefined", val |-> 0]
Text(n) == [type |-> "string", val |-> n]
Versions == {Number(0), Number(1), Text(0), Undefined}
Templates ==
  {[yamlLoad |-> y, version |-> Undefined, marker |-> m] :
     y \in {"throw", "null", "scalar"}, m \in BOOLEAN}
    \cup {[yamlLoad |-> "map", version |-> v, marker |-> m] :
            v \in Versions, m \in BOOLEAN}
NoTemplate == [yamlLoad |-> "none", version |-> Undefined, marker |-> FALSE]

\* The scope lists the project registry can hold for the repository.
RegistryScopes == {<<ScopeA>>, <<ScopeA, ScopeB, ScopeA>>}
NotifyScope(user) == <<"queue:route:notify.email.", user, ".*">>

\* ------------------------------------------------------- commit messages
\* A commit description is a sequence of characters.
TRY_PREFIX == <<"t", "r", "y", ":">>
Chars == {"t", "r", "y", ":", "\n", "x"}
Messages == SeqUpTo(Chars, MaxMessageLen)
PushDescs == {<<"x", "\n", "t", "r", "y", ":", "x", "\n", "x">>}

Min(S) == CHOOSE m \in S : \A n \in S : m <= n

\* String.prototype.indexOf(sub, from), positions counted from 0.
indexOf(s, sub, from) ==
  LET hits == {i \in from..(Len(s) - Len(sub)) : SubSeq(s, i + 1, i + Len(sub)) = sub}
  IN IF hits = {} THEN -1 ELSE Min(hits)

\* String.prototype.slice(start, end) for 0 <= start.
slice(s, start, end) == SubSeq(s, start + 1, end)

parseCommitMessage_newlineFromStart(m) ==
  LET tryIdx == indexOf(m, TRY_PREFIX, 0)
      nl == indexOf(m, <<"\n">>, 0)
      endIdx == IF nl = -1 THEN Len(m) ELSE nl
  IN IF tryIdx = -1 THEN None ELSE Some(slice(m, tryIdx, endIdx))

\* null is None; a directive is Some(text).
parseCommitMessage(m) ==
  LET tryIdx == indexOf(m, TRY_PREFIX, 0)
      nl == indexOf(m, <<"\n">>, tryIdx)
      endIdx == IF nl = -1 THEN Len(m) ELSE nl
  IN IF tryIdx = -1 THEN None ELSE Some(slice(m, tryIdx, endIdx))

OrSpace_keepEmpty(parsed) == IF parsed = None THEN <<>> ELSE parsed[1]

\* parsed || ' ': null and the empty string give a single space.
OrSpace(parsed) == IF parsed = None \/ parsed = Some(<<>>) THEN <<" ">> ELSE parsed[1]

\* ------------------------------------------------------------- rendering
\* The try/catch that determines the version number.
DetectVersion(template) ==
  IF template.yamlLoad \in {"throw", "null"}
  THEN IF template.marker
       THEN Ok(Number(0))
       ELSE Throw(IF template.yamlLoad = "throw" THEN YamlError ELSE NullDocError)
  ELSE Ok(template.version)

schedulerId(lvl) == <<"gecko-level-", LevelText[lvl]>>

SetSchedulerId(entry, lvl) ==
  [entry EXCEPT !.def.schedulerId = Some(schedulerId(lvl))]

renderTemplateV0(doc, lvl) ==
  CASE doc.kind = "throw" -> Throw(YamlError)
    [] doc.kind = "null" -> Throw(NoTasksError)
    [] doc.kind = "notasks" -> Throw(NotIterableError)
    [] doc.kind = "tasks" ->
         IF \E i \in 1..Len(doc.tasks) : ~doc.tasks[i].wrapped
         THEN Throw(BareEntryError)
         ELSE Ok([i \in 1..Len(doc.tasks) |-> SetSchedulerId(doc.tasks[i], lvl)])

renderTemplate(template, doc, lvl) ==
  LET v == DetectVersion(template) IN
  IF ~v.ok THEN Throw(v.err)
  ELSE IF v.val = Number(0)
       THEN renderTemplateV0(doc, lvl)
       ELSE Throw(UnrecognizedVersion)

\* The catch block of scheduleTaskGroup: the error template is instantiated and
\* the failure is written into the environment of its first task.
SetErrorMsg_onlyWhenMissing(def, e) ==
  LET env == IF def.payload[1].env = None THEN EmptyEnv ELSE def.payload[1].env[1]
      msg == IF env.ERROR_MSG = None THEN Some(toString(e)) ELSE env.ERROR_MSG
  IN [def EXCEPT !.payload = Some([env |-> Some([env EXCEPT !.ERROR_MSG = msg])])]

SetErrorMsg(def, e) ==
  LET env == IF def.payload[1].env = None THEN EmptyEnv ELSE def.payload[1].env[1]
  IN [def EXCEPT !.payload = Some([env |-> Some([env EXCEPT !.ERROR_MSG = Some(toString(e))])])]

ErrorGraph_everyTask(doc, e) ==
  CASE doc.kind = "throw" -> Throw(YamlError)
    [] doc.kind = "null" -> Throw(NoTasksError)
    [] doc.kind = "notasks" -> Throw(NoFirstTaskError)
    [] doc.kind = "tasks" ->
         IF doc.tasks = <<>> THEN Throw(NoFirstTaskError)
         ELSE IF ~doc.tasks[1].wrapped THEN Throw(NoPayloadError)
         ELSE IF doc.tasks[1].def.payload = None THEN Throw(NoEnvError)
         ELSE Ok([i \in 1..Len(doc.tasks) |->
                   [doc.tasks[i] EXCEPT !.def = SetErrorMsg(doc.tasks[i].def, e)]])

ErrorGraph(doc, e) ==
  CASE doc.kind = "throw" -> Throw(YamlError)
    [] doc.kind = "null" -> Throw(NoTasksError)
    [] doc.kind = "notasks" -> Throw(NoFirstTaskError)
    [] doc.kind = "tasks" ->
         IF doc.tasks = <<>> THEN Throw(NoFirstTaskError)
         ELSE IF ~doc.tasks[1].wrapped THEN Throw(NoPayloadError)
         ELSE IF doc.tasks[1].def.payload = None THEN Throw(NoEnvError)
         ELSE Ok([doc.tasks EXCEPT ![1].def = SetErrorMsg(doc.tasks[1].def, e)])

\* ------------------------------------------------------------ submission
Has(s, x) == \E i \in 1..Len(s) : s[i] = x

\* Array.from(new Set(list)): the first occurrence of each element, in order.
Dedup_keepAll(s) == s

\* The Set is filled in list order; a value it already holds is not added again.
RECURSIVE AddAll(_, _)
AddAll(set, s) ==
  IF s = <<>> THEN set
  ELSE AddAll(IF Has(set, Head(s)) THEN set ELSE Append(set, Head(s)), Tail(s))

Dedup(s) == AddAll(<<>>, s)

taskScopes(def, projectScopes) ==
  LET taskDefinitionScopes == IF def.scopes = None THEN <<>> ELSE def.scopes[1]
  IN Dedup(taskDefinitionScopes \o projectScopes)

\* slugid.nice(): a fresh identifier on every call.
Digits == <<"1", "2", "3", "4", "5", "6", "7", "8", "9">>
SlugIds == [n \in 1..Len(Digits) |-> <<"slug-", Digits[n]>>]

NextGroupId_perTask(current, taskId) == Some(taskId)

NextGroupId(current, taskId) == IF current = None THEN Some(taskId) ELSE current

\* ---------------------------------------------------------- fetch errors
stack(e) == toString(e) \o <<"\n    at <frames>">>
FetchError(url, e) ==
  [name |-> "Error",
   message |-> <<"Could not fetch graph at ">> \o url \o <<"\n ">> \o stack(e)]
HttpErrors == {NetworkError, StatusError}

\* retry(opts, fn): the attempt that fails after the retries are used up is the
\* last one.
RetriesUsedUp(failed, retires) == failed > retires

\* ------------------------------------------------------------------ Init
Init ==
  /\ pc = "fetching-push-metadata"
  /\ level \in Levels
  /\ registry \in RegistryScopes
  /\ scopes = <<>>
  /\ attempts = 0
  /\ httpLog = <<>>
  /\ graphText = NoTemplate
  /\ renderedTemplate = <<>>
  /\ renderError = None
  /\ usedFallback = FALSE
  /\ projectDoc = None
  /\ errorDoc = None
  /\ groupId = None
  /\ idx = 1
  /\ nextSlug = 1
  /\ inflight = FALSE
  /\ calls = <<>>
  /\ created = 0
  /\ jobError = None
  /\ rejections = 0
  /\ message = <<>>
  /\ tryFlag = None
  /\ comment = None

\* --------------------------------------------------------------- actions
\* work(): the push-log lookup returns; the variables and the scope list are
\* built.  registry is the list projectConfig.scopes returns, and the push of
\* line 71 is made on that list.
GetOneOk ==
  /\ pc = "fetching-push-metadata"
  /\ \E user \in Users :
       /\ registry' = Append(registry, NotifyScope(user))
       /\ scopes' = registry'
  /\ \E desc \in PushDescs :
       /\ message' = desc
       /\ tryFlag' = parseCommitMessage(desc)
       /\ comment' = Some(OrSpace(parseCommitMessage(desc)))
  /\ pc' = "fetching-template"
  /\ UNCHANGED <<level, attempts, httpLog, graphText, renderedTemplate,
                 renderError, usedFallback, groupId, idx, nextSlug, inflight,
                 calls, created, jobError, projectDoc, errorDoc,
                 rejections>>

GetOneFail ==
  /\ pc = "fetching-push-metadata"
  /\ UNCHANGED <<message, tryFlag, comment>>
  /\ pc' = "failed"
  /\ jobError' = Some(PushlogError)
  /\ UNCHANGED <<level, scopes, attempts, httpLog, graphText, renderedTemplate,
                 renderError, usedFallback, groupId, idx, nextSlug, inflight,
                 calls, created, registry, projectDoc, errorDoc,
                 rejections>>

\* fetchGraph(): one attempt of the retried request fails.
HttpAttemptFail ==
  /\ pc = "fetching-template"
  /\ UNCHANGED <<message, tryFlag, comment>>
  /\ attempts < MaxAttempts
  /\ \E e \in HttpErrors :
       /\ attempts' = attempts + 1
       /\ httpLog' = Append(httpLog, [ok |-> FALSE, text |-> NoTemplate])
       /\ IF RetriesUsedUp(attempts + 1, GRAPH_RETIRES)
          THEN /\ pc' = "failed"
               /\ jobError' = Some(FetchError(GraphUrl, e))
          ELSE UNCHANGED <<pc, jobError>>
  /\ UNCHANGED <<level, scopes, graphText, renderedTemplate, renderError,
                 usedFallback, groupId, idx, nextSlug, inflight, calls,
                 created, registry, projectDoc, errorDoc,
                 rejections>>

\* fetchGraph(): an attempt succeeds and its body is returned to work().
HttpAttemptOk ==
  /\ pc = "fetching-template"
  /\ UNCHANGED <<message, tryFlag, comment>>
  /\ attempts < MaxAttempts
  /\ \E body \in Templates :
       /\ graphText' = body
       /\ httpLog' = Append(httpLog, [ok |-> TRUE, text |-> body])
  /\ attempts' = attempts + 1
  /\ pc' = "rendering"
  /\ UNCHANGED <<level, scopes, renderedTemplate, renderError, usedFallback,
                 groupId, idx, nextSlug, inflight, calls, created, jobError,
                 registry, projectDoc, errorDoc,
                 rejections>>

\* scheduleTaskGroup(): the template is rendered, or the error template is.
Render ==
  /\ pc = "rendering"
  /\ UNCHANGED <<message, tryFlag, comment>>
  /\ UNCHANGED <<level, scopes, attempts, httpLog, graphText, groupId, idx,
                 nextSlug, inflight, calls, created, registry, rejections>>
  /\ \E doc \in ProjectDocs :
       LET v == DetectVersion(graphText)
           r == renderTemplate(graphText, doc, level)
       IN /\ projectDoc' = IF v.ok /\ v.val = Number(0) THEN Some(doc) ELSE None
          /\ IF r.ok
             THEN /\ renderedTemplate' = r.val
                  /\ pc' = "submitting"
                  /\ UNCHANGED <<renderError, usedFallback, errorDoc, jobError>>
             ELSE /\ renderError' = Some(r.err)
                  /\ \E edoc \in ErrorDocs :
                       LET f == ErrorGraph(edoc, r.err)
                       IN /\ errorDoc' = Some(edoc)
                          /\ IF f.ok
                             THEN /\ renderedTemplate' = f.val
                                  /\ usedFallback' = TRUE
                                  /\ pc' = "submitting"
                                  /\ UNCHANGED jobError
                             ELSE /\ pc' = "failed"
                                  /\ jobError' = Some(f.err)
                                  /\ UNCHANGED <<renderedTemplate, usedFallback>>

LoopExit_offByOne ==
  /\ pc = "submitting"
  /\ UNCHANGED <<message, tryFlag, comment>>
  /\ ~inflight
  /\ idx > Len(renderedTemplate) + 1
  /\ pc' = "done"
  /\ UNCHANGED <<level, scopes, attempts, httpLog, graphText, renderedTemplate,
                 renderError, usedFallback, groupId, idx, nextSlug, inflight,
                 calls, created, jobError, registry, projectDoc, errorDoc,
                 rejections>>

\* The for loop of scheduleTaskGroup reaches the end of the tasks list.
LoopExit ==
  /\ pc = "submitting"
  /\ UNCHANGED <<message, tryFlag, comment>>
  /\ ~inflight
  /\ idx > Len(renderedTemplate)
  /\ pc' = "done"
  /\ UNCHANGED <<level, scopes, attempts, httpLog, graphText, renderedTemplate,
                 renderError, usedFallback, groupId, idx, nextSlug, inflight,
                 calls, created, jobError, registry, projectDoc, errorDoc,
                 rejections>>

CallCreateTask_noAwait ==
  /\ pc = "submitting"
  /\ UNCHANGED <<message, tryFlag, comment>>
  /\ idx <= Len(renderedTemplate)
  /\ nextSlug <= Len(SlugIds)
  /\ LET taskId == SlugIds[nextSlug]
         group == NextGroupId(groupId, taskId)
         task == renderedTemplate[idx]
         taskDefinition ==
           [task.def EXCEPT !.scopes = Some(taskScopes(task.def, scopes)),
                            !.taskGroupId = group]
     IN /\ groupId' = group
        /\ renderedTemplate' = [renderedTemplate EXCEPT ![idx].def = taskDefinition]
        /\ calls' = Append(calls, [taskId |-> taskId, task |-> taskDefinition, pos |-> idx])
  /\ nextSlug' = nextSlug + 1
  /\ inflight' = TRUE
  /\ UNCHANGED <<pc, level, scopes, attempts, httpLog, graphText, renderError,
                 usedFallback, idx, created, jobError, registry, projectDoc,
                 errorDoc,
                 rejections>>

\* One iteration of the loop up to the createTask call.
CallCreateTask ==
  /\ pc = "submitting"
  /\ UNCHANGED <<message, tryFlag, comment>>
  /\ ~inflight
  /\ idx <= Len(renderedTemplate)
  /\ nextSlug <= Len(SlugIds)
  /\ LET taskId == SlugIds[nextSlug]
         group == NextGroupId(groupId, taskId)
         task == renderedTemplate[idx]
         taskDefinition ==
           [task.def EXCEPT !.scopes = Some(taskScopes(task.def, scopes)),
                            !.taskGroupId = group]
     IN /\ groupId' = group
        /\ renderedTemplate' = [renderedTemplate EXCEPT ![idx].def = taskDefinition]
        /\ calls' = Append(calls, [taskId |-> taskId, task |-> taskDefinition, pos |-> idx])
  /\ nextSlug' = nextSlug + 1
  /\ inflight' = TRUE
  /\ UNCHANGED <<pc, level, scopes, attempts, httpLog, graphText, renderError,
                 usedFallback, idx, created, jobError, registry, projectDoc,
                 errorDoc,
                 rejections>>

CreateTaskOk_noAdvance ==
  /\ pc = "submitting"
  /\ UNCHANGED <<message, tryFlag, comment>>
  /\ inflight
  /\ inflight' = FALSE
  /\ created' = created + 1
  /\ idx' = idx
  /\ UNCHANGED <<pc, level, scopes, attempts, httpLog, graphText,
                 renderedTemplate, renderError, usedFallback, groupId, nextSlug,
                 calls, jobError, registry, projectDoc, errorDoc,
                 rejections>>

\* createTask resolves: the loop moves to the next task.
CreateTaskOk ==
  /\ pc = "submitting"
  /\ UNCHANGED <<message, tryFlag, comment>>
  /\ inflight
  /\ inflight' = FALSE
  /\ created' = created + 1
  /\ idx' = idx + 1
  /\ UNCHANGED <<pc, level, scopes, attempts, httpLog, graphText,
                 renderedTemplate, renderError, usedFallback, groupId, nextSlug,
                 calls, jobError, registry, projectDoc, errorDoc,
                 rejections>>

CreateTaskFail_swallowed ==
  /\ pc = "submitting"
  /\ UNCHANGED <<message, tryFlag, comment>>
  /\ inflight
  /\ inflight' = FALSE
  /\ rejections' = rejections + 1
  /\ idx' = idx + 1
  /\ UNCHANGED <<pc, level, scopes, attempts, httpLog, graphText,
                 renderedTemplate, renderError, usedFallback, groupId, nextSlug,
                 calls, created, jobError, registry, projectDoc, errorDoc>>

\* createTask rejects: the failure is logged and thrown again.
CreateTaskFail ==
  /\ pc = "submitting"
  /\ UNCHANGED <<message, tryFlag, comment>>
  /\ inflight
  /\ inflight' = FALSE
  /\ rejections' = rejections + 1
  /\ pc' = "failed"
  /\ jobError' = Some(CreateTaskError)
  /\ UNCHANGED <<level, scopes, attempts, httpLog, graphText, renderedTemplate,
                 renderError, usedFallback, groupId, idx, nextSlug, calls,
                 created, registry, projectDoc, errorDoc>>

Next ==
  \/ GetOneOk
  \/ GetOneFail
  \/ HttpAttemptFail
  \/ HttpAttemptOk
  \/ Render
  \/ LoopExit
  \/ CallCreateTask
  \/ CreateTaskOk
  \/ CreateTaskFail

Spec == Init /\ [][Next]_vars

\* Every external call returns or fails in the end, so a job that can take a
\* step takes one.
FairSpec == Spec /\ WF_vars(Next)

\* ------------------------------------------- the commit message, by itself
\* parseCommitMessage and line 80 of work() applied to every description up to
\* MaxMessageLen characters.
ParseInit ==
  /\ pc = "parse"
  /\ message \in Messages
  /\ tryFlag = None
  /\ comment = None
  /\ level = 1
  /\ registry = <<>>
  /\ scopes = <<>>
  /\ attempts = 0
  /\ httpLog = <<>>
  /\ graphText = NoTemplate
  /\ renderedTemplate = <<>>
  /\ renderError = None
  /\ usedFallback = FALSE
  /\ projectDoc = None
  /\ errorDoc = None
  /\ groupId = None
  /\ idx = 1
  /\ nextSlug = 1
  /\ inflight = FALSE
  /\ calls = <<>>
  /\ created = 0
  /\ jobError = None
  /\ rejections = 0

ParseMessage ==
  /\ pc = "parse"
  /\ tryFlag' = parseCommitMessage(message)
  /\ pc' = "parsed"
  /\ UNCHANGED <<level, scopes, attempts, httpLog, graphText, renderedTemplate,
                 renderError, usedFallback, groupId, idx, nextSlug, inflight,
                 calls, created, jobError, registry, projectDoc, errorDoc,
                 rejections, message, comment>>

BuildComment ==
  /\ pc = "parsed"
  /\ comment' = Some(OrSpace(tryFlag))
  /\ pc' = "commented"
  /\ UNCHANGED <<level, scopes, attempts, httpLog, graphText, renderedTemplate,
                 renderError, usedFallback, groupId, idx, nextSlug, inflight,
                 calls, created, jobError, registry, projectDoc, errorDoc,
                 rejections, message, tryFlag>>

ParseNext ==
  \/ ParseMessage
  \/ BuildComment

ParseSpec == ParseInit /\ [][ParseNext]_vars

\* ================================================================ claims
Range(s) == {s[i] : i \in 1..Len(s)}
NoDuplicates(s) == \A i, j \in 1..Len(s) : i # j => s[i] # s[j]

\* The tasks list as the renderer returned it, before the loop touches it.
SourceTasks == IF usedFallback THEN errorDoc[1].tasks ELSE projectDoc[1].tasks
DeclaredScopesOf(def) == IF def.scopes = None THEN <<>> ELSE def.scopes[1]

\* C1: every definition handed to createTask carries the id generated for the
\* first task as its taskGroupId, whatever the template declared; the group id
\* is set by the time the first call is made and never changes afterwards.
C1_SharedNow ==
  /\ calls # <<>> => groupId = Some(calls[1].taskId)
  /\ \A i \in 1..Len(calls) : calls[i].task.taskGroupId = Some(calls[1].taskId)
C1_GroupIdShared ==
  [](C1_SharedNow) /\ [][groupId # None => groupId' = groupId]_vars
C1_Witness ==
  /\ Len(calls) >= 2
  /\ SourceTasks[2].def.taskGroupId = Some(<<"template-group">>)
  /\ calls[2].task.taskGroupId = Some(SlugIds[1])

\* C2: the scopes of every definition handed to createTask are, as a set, the
\* scopes the template declared for the task together with the scopes given to
\* scheduleTaskGroup, and no scope is listed twice.
C2_ScopesUnion ==
  \A i \in 1..Len(calls) :
    /\ calls[i].task.scopes # None
    /\ Range(calls[i].task.scopes[1]) =
         Range(DeclaredScopesOf(SourceTasks[i].def)) \cup Range(scopes)
    /\ NoDuplicates(calls[i].task.scopes[1])
C2_Witness ==
  /\ calls # <<>>
  /\ ~NoDuplicates(DeclaredScopesOf(SourceTasks[1].def))
  /\ ~NoDuplicates(scopes)
  /\ calls[1].task.scopes = Some(<<ScopeA, ScopeB, NotifyScope("alice")>>)

\* C3: when the queue rejects the k-th createTask call, that call is the last
\* one: k calls were made, the k-1 created tasks stay created, nothing further
\* is called, and the job fails with the rejection itself.
C3_AfterRejection ==
  rejections > 0 =>
    /\ pc = "failed"
    /\ jobError = Some(CreateTaskError)
    /\ Len(calls) = created + 1
    /\ rejections = 1
C3_PartialFailure ==
  [](C3_AfterRejection) /\ [][rejections > 0 => UNCHANGED <<calls, created>>]_vars
C3_Witness ==
  /\ rejections = 1
  /\ Len(calls) = 2
  /\ created = 1
  /\ Len(renderedTemplate) = 2

\* C4: when every attempt fails, fetchGraph makes three attempts, no more and
\* no fewer, and then fails with an error whose message holds the URL and the
\* failure of the last attempt.
AllAttemptsFailed == \A i \in 1..Len(httpLog) : ~httpLog[i].ok
IsFetchError(e) ==
  /\ Has(e.message, "Could not fetch graph at ")
  /\ Has(e.message, GraphUrl[1])
  /\ \E cause \in HttpErrors : Has(e.message, cause.message[1])
C4_ThreeAttempts ==
  (attempts > 0 /\ AllAttemptsFailed) =>
    /\ attempts <= 3
    /\ attempts < 3 => (pc = "fetching-template" /\ jobError = None)
    /\ attempts = 3 =>
         (pc = "failed" /\ jobError # None /\ IsFetchError(jobError[1]))
C4_Witness ==
  /\ attempts = 3
  /\ AllAttemptsFailed
  /\ pc = "failed"
  /\ calls = <<>>

\* C5: when the first two attempts fail and the third succeeds, fetchGraph
\* gives back the body of the third response and the job goes on to render it.
C5_ThirdAttemptBody ==
  /\ (Len(httpLog) = 2 /\ AllAttemptsFailed) =>
       (pc = "fetching-template" /\ jobError = None)
  /\ (Len(httpLog) = 3 /\ ~httpLog[1].ok /\ ~httpLog[2].ok /\ httpLog[3].ok) =>
       /\ graphText = httpLog[3].text
       /\ pc # "fetching-template"
       /\ pc = "rendering" \/ projectDoc # None \/ renderError # None
       /\ jobError # None => ~IsFetchError(jobError[1])
C5_Witness ==
  /\ Len(httpLog) = 3
  /\ ~httpLog[1].ok /\ ~httpLog[2].ok /\ httpLog[3].ok
  /\ graphText = httpLog[3].text
  /\ graphText.yamlLoad = "map"
  /\ pc = "rendering"

\* Whether the job got past the rendering of a fetched template.
Rendered == graphText # NoTemplate /\ pc # "rendering"
EnvOf(def) == IF def.payload[1].env = None THEN EmptyEnv ELSE def.payload[1].env[1]

\* C6: a version-0 template whose tasks list holds bare definitions or
\* {task: ...} wrappers is rendered without falling back to the error template,
\* and every submitted definition carries "gecko-level-" + level as schedulerId.
C6_BothFormsAccepted ==
  (Rendered /\ projectDoc # None /\ projectDoc[1].kind = "tasks") =>
    /\ renderError = None
    /\ \A i \in 1..Len(calls) :
         calls[i].task.schedulerId = Some(<<"gecko-level-", LevelText[level]>>)

\* The error template renders to a list whose first entry is a wrapper with a payload.
ValidErrorTemplate(doc) ==
  /\ doc.kind = "tasks"
  /\ doc.tasks # <<>>
  /\ doc.tasks[1].wrapped
  /\ doc.tasks[1].def.payload # None

\* C7 as stated: after a render failure with a valid error template the graph
\* is the rendered error template, has exactly one task, and that task's
\* ERROR_MSG is the message of the failure.
C7_OneTaskWithMessage ==
  (renderError # None /\ ValidErrorTemplate(errorDoc[1])) =>
    /\ usedFallback
    /\ Len(renderedTemplate) = 1
    /\ EnvOf(renderedTemplate[1].def).ERROR_MSG = Some(renderError[1].message)

\* C7 amended: after a render failure with a valid error template the graph
\* that is submitted is the rendered error template, with every task that
\* template defines, and the first task's ERROR_MSG is the string form of the
\* failure: its name, ": ", and its message.
C7_ErrorGraphSubmitted ==
  (renderError # None /\ ValidErrorTemplate(errorDoc[1])) =>
    /\ usedFallback
    /\ pc # "failed" \/ jobError = Some(CreateTaskError)
    /\ Len(renderedTemplate) = Len(errorDoc[1].tasks)
    /\ EnvOf(renderedTemplate[1].def).ERROR_MSG =
         Some(<<renderError[1].name, ": ">> \o renderError[1].message)
    /\ \A i \in 1..Len(renderedTemplate) :
         /\ renderedTemplate[i].wrapped = errorDoc[1].tasks[i].wrapped
         /\ renderedTemplate[i].def.schedulerId = errorDoc[1].tasks[i].def.schedulerId
         /\ i > 1 => renderedTemplate[i].def.payload = errorDoc[1].tasks[i].def.payload
    /\ \A i \in 1..Len(calls) :
         /\ calls[i].task.payload = renderedTemplate[i].def.payload
         /\ calls[i].task.schedulerId = errorDoc[1].tasks[i].def.schedulerId
C7_Witness ==
  /\ renderError = Some(UnrecognizedVersion)
  /\ usedFallback
  /\ Len(errorDoc[1].tasks) = 1
  /\ Len(calls) = 1
  /\ EnvOf(calls[1].task).ERROR_MSG =
       Some(<<"Error", ": ", "Unrecognized .taskcluster.yml version">>)

\* C8 as stated: in the fallback, ERROR_MSG is written only when the rendered
\* error task lacks it, a value the error template defines is kept, and the
\* other entries of payload.env are unchanged.
C8_KeepsTemplateMessage ==
  usedFallback =>
    LET before == EnvOf(errorDoc[1].tasks[1].def)
        after == EnvOf(renderedTemplate[1].def)
    IN /\ before.ERROR_MSG # None => after.ERROR_MSG = before.ERROR_MSG
       /\ before.ERROR_MSG = None => after.ERROR_MSG = Some(toString(renderError[1]))
       /\ after.HEAD_REV = before.HEAD_REV

\* C8 amended: in the fallback, payload.env is created when the rendered error
\* task lacks it, ERROR_MSG is always set to the string form of the failure,
\* replacing a value the error template defines, and every other entry of
\* payload.env is unchanged.
C8_MessageOverwritten ==
  usedFallback =>
    LET before == EnvOf(errorDoc[1].tasks[1].def)
        after == EnvOf(renderedTemplate[1].def)
    IN /\ renderedTemplate[1].def.payload[1].env # None
       /\ after.ERROR_MSG = Some(toString(renderError[1]))
       /\ after.HEAD_REV = before.HEAD_REV
       /\ calls # <<>> => EnvOf(calls[1].task) = after
C8_Witness ==
  /\ usedFallback
  /\ EnvOf(errorDoc[1].tasks[1].def).ERROR_MSG = Some(<<"template-error-msg">>)
  /\ EnvOf(errorDoc[1].tasks[1].def).HEAD_REV = Some(<<"abcdef">>)
  /\ calls # <<>>
  /\ EnvOf(calls[1].task).ERROR_MSG # Some(<<"template-error-msg">>)
  /\ EnvOf(calls[1].task).HEAD_REV = Some(<<"abcdef">>)

\* C9: whatever failure the version detection or the rendering raises, the
\* fallback completes without raising and the job goes on to call createTask.
C9_FallbackNeverRaises ==
  renderError # None =>
    /\ usedFallback
    /\ pc \in {"done", "failed"} => calls # <<>>

\* C10: renderTemplateV0 is used exactly when the text parses with version
\* equal to the number 0, or fails to parse and contains 'version: 0'; a text
\* that parses with another or no version is rejected as unrecognized, one
\* that fails to parse without the marker raises the parse failure, and both
\* rejections enter the error-template fallback.
Parses(template) == template.yamlLoad \in {"null", "scalar", "map"}
C10_VersionDetection ==
  Rendered =>
    /\ projectDoc # None <=>
         \/ Parses(graphText) /\ graphText.version = Number(0)
         \/ graphText.yamlLoad = "throw" /\ graphText.marker
    /\ (Parses(graphText) /\ graphText.version # Number(0)) =>
         (renderError = Some(UnrecognizedVersion) /\ errorDoc # None)
    /\ (graphText.yamlLoad = "throw" /\ ~graphText.marker) =>
         (renderError = Some(YamlError) /\ errorDoc # None)

\* C11: the stages follow one another in the order fetching-push-metadata,
\* fetching-template, rendering, submitting, done, with failed as the other
\* end; no step goes back, only the fetch attempts and the submission loop
\* stay in their stage, so the template is rendered once at most; nothing is
\* handed to createTask before the submitting stage, in particular not when the
\* push-log lookup or the fetch fails; no task is handed to createTask twice.
Stage ==
  [s \in {"fetching-push-metadata", "fetching-template", "rendering",
          "submitting", "done", "failed"} |->
     CASE s = "fetching-push-metadata" -> 1
       [] s = "fetching-template" -> 2
       [] s = "rendering" -> 3
       [] s = "submitting" -> 4
       [] s = "done" -> 5
       [] s = "failed" -> 5]
C11_StageNow ==
  /\ Stage[pc] < 4 => calls = <<>>
  /\ (pc = "failed" /\ (graphText = NoTemplate \/ created + rejections = 0)) => calls = <<>>
  /\ Len(calls) <= Len(renderedTemplate)
  /\ \A i, j \in 1..Len(calls) : i # j => calls[i].pos # calls[j].pos
C11_StageOrder ==
  /\ [](C11_StageNow)
  /\ [][\/ Stage[pc'] > Stage[pc]
        \/ pc' = pc /\ pc \in {"fetching-template", "submitting"}]_vars
C11_Witness ==
  /\ pc = "done"
  /\ Len(calls) = 2
  /\ created = 2
  /\ Len(httpLog) = 2
  /\ renderError = None

\* C12: createTask is called for the tasks in the order of the rendered list
\* and one call at a time: a call is made only when every earlier call has
\* returned successfully, so at most one call is awaiting its answer.
Pending == Len(calls) - created - rejections
C12_OneAtATime ==
  /\ \A i \in 1..Len(calls) : calls[i].pos = i
  /\ Pending \in {0, 1}
  /\ Len(calls) <= created + 1
  /\ inflight <=> Pending = 1
C12_Witness ==
  /\ Len(calls) = 2
  /\ created = 1
  /\ inflight
  /\ calls[1].pos = 1
  /\ calls[2].pos = 2

\* C13: parseCommitMessage gives null for a description without "try:";
\* otherwise it gives the part of the description that starts at the first
\* "try:" and stops before the first line break after it, or at the end of
\* the description when no line break follows.
Occurs(s, sub, i) == i + Len(sub) <= Len(s) /\ SubSeq(s, i + 1, i + Len(sub)) = sub
HasTry(s) == \E i \in 0..Len(s) : Occurs(s, TRY_PREFIX, i)
IsDirective(s, d) ==
  \E a \in 0..Len(s), b \in 0..Len(s) :
    /\ a <= b
    /\ d = [k \in 1..(b - a) |-> s[a + k]]
    /\ Occurs(s, TRY_PREFIX, a)
    /\ \A k \in 0..(a - 1) : ~Occurs(s, TRY_PREFIX, k)
    /\ \A k \in (a + 1)..b : s[k] # "\n"
    /\ b = Len(s) \/ s[b + 1] = "\n"
C14_CommentNeverEmpty ==
  comment # None =>
    /\ comment[1] # <<>>
    /\ ~HasTry(message) => comment[1] = <<" ">>
    /\ HasTry(message) => (IsDirective(message, comment[1]) /\ Len(comment[1]) >= 4)
C14_Witness ==
  /\ pc = "commented"
  /\ message = <<"x", "\n", "\n">>
  /\ tryFlag = None
  /\ comment = Some(<<" ">>)

\* C15: when the rendered error template defines several tasks, only the first
\* gets ERROR_MSG; the payloads of the others stay as rendered, and all of
\* them are handed to createTask in order, with the group id of the first and
\* the scopes of the project added.
C15_OnlyFirstGetsMessage ==
  (usedFallback /\ Len(errorDoc[1].tasks) > 1) =>
    /\ EnvOf(renderedTemplate[1].def).ERROR_MSG # None
    /\ \A i \in 2..Len(renderedTemplate) :
         /\ renderedTemplate[i].def.payload = errorDoc[1].tasks[i].def.payload
         /\ EnvOf(renderedTemplate[i].def).ERROR_MSG = None
    /\ \A i \in 1..Len(calls) :
         /\ calls[i].pos = i
         /\ calls[i].task.payload = renderedTemplate[i].def.payload
         /\ calls[i].task.taskGroupId = Some(calls[1].taskId)
         /\ Range(calls[i].task.scopes[1]) =
              Range(DeclaredScopesOf(errorDoc[1].tasks[i].def)) \cup Range(scopes)
    /\ pc = "done" =>
         (Len(calls) = Len(errorDoc[1].tasks) /\ created = Len(calls))
C15_Witness ==
  /\ usedFallback
  /\ Len(errorDoc[1].tasks) = 2
  /\ ~errorDoc[1].tasks[2].wrapped
  /\ pc = "done"
  /\ Len(calls) = 2
  /\ EnvOf(calls[1].task).ERROR_MSG # None
  /\ EnvOf(calls[2].task).ERROR_MSG = None

\* C16: a job leaves the list it got from projectConfig.scopes as it was.
C16_RegistryUntouched == [][registry' = registry]_vars

\* C17: a job that ends as done has had at least one task created.
C17_DoneMeansCreated == pc = "done" => created >= 1

\* C18: when every external call returns or fails in the end, the job reaches
\* done or failed.
C18_Terminates == <>(pc \in {"done", "failed"})
C18_Witness ==
  /\ pc = "done"
  /\ attempts = GRAPH_RETIRES + 1
  /\ created = MaxTasks
  /\ ~usedFallback

====
